---- MODULE Spec2Model ----
(***************************************************************************)
(* Model of the crawl core of scraper_backend: the scheduler loop          *)
(* run_scraper, the per-site check task check_site, the sites / updates    *)
(* tables it reads and writes, the in-memory SiteState table, the          *)
(* broadcast of UpdateMessage values and the event streams of sse_updates  *)
(* that receive it.                                                        *)
(*                                                                         *)
(* Time is in milliseconds.  Every step of a check task is one completed   *)
(* .await of check_site (the effect of the awaited request or query)       *)
(* together with the synchronous code that follows it, except that the     *)
(* broadcast send is a step of its own.  The lock acquisitions on the      *)
(* SiteState table are not suspension points of their own: no task holds   *)
(* the lock across an .await, so they complete at once, and the code from  *)
(* the read at scraper.rs:178 to the insert at scraper.rs:210 is one step. *)
(***************************************************************************)
EXTENDS Integers, Sequences, FiniteSets, TLC

VARIABLES
    clock,        \* Utc::now(), in ms
    scheduler,    \* position of the run_scraper loop: [pc, wake, snap, ...]
    sites,        \* table sites: id -> row
    updates,      \* table updates: sequence of rows in id order
    next_id,      \* AUTOINCREMENT counter of table updates
    site_states,  \* HashMap<i64, SiteCheckState>
    tasks,        \* the spawned check_site tasks that have not ended
    sent,         \* every UpdateMessage handed to tx.send, in order
    receivers,    \* the broadcast receivers of the open event streams
    admin,        \* the delete_site calls in progress and the schema in use
    eval,         \* a function of scraper.rs applied by itself: arguments, result
    config,       \* AppConfig
    limits,       \* what is left of the exploration budget
    hist          \* history kept per site for stating the properties

vars == <<clock, scheduler, sites, updates, next_id, site_states, tasks,
          sent, receivers, admin, eval, config, limits, hist>>

----------------------------------------------------------------------------
(* Bounds of the exploration *)

MaxDispatch == 4       \* check tasks spawned in one run
MaxInFlight == 2       \* check tasks alive at the same time
MaxFaults == 1         \* storage operations that fail in one run
MaxClock == 100        \* last instant reached in steps of one tick
MaxCacheSize == 2      \* largest update_cache_size tried
MaxJitterMs == 2       \* largest interval_jitter_max_ms tried
MaxIntervalSecs == 1   \* largest interval_secs tried
LogCap == 3            \* ended checks remembered in order per site
MaxSubscribers == 1    \* event streams opened in one run
ChannelCap == 2        \* messages the channel retains, for broadcast::channel(1000)
MaxDeletes == 1        \* delete_site calls in one run
MaxChars == 3          \* characters of a body given to extract_formatted_preview
MaxPreview == 4        \* largest max_length given to extract_formatted_preview
DeepDispatch == 12     \* check tasks spawned in a run of the backoff scenario

(* Program constants *)

TickMs == 100          \* sleep(Duration::from_millis(100))
MsPerSec == 1000       \* site.interval_secs * 1000
BackoffCap == 10       \* backoff_count.min(10)

Styles == {"random", "exponential", "none", "weekly"}

Min(a, b) == IF a <= b THEN a ELSE b

(* a set of at most one element as a sequence *)
SetToSeq(opt) == IF opt = {} THEN <<>> ELSE <<CHOOSE v \in opt : TRUE>>

RECURSIVE Pow2(_)
Pow2(n) == IF n = 0 THEN 1 ELSE 2 * Pow2(n - 1)

----------------------------------------------------------------------------
(* Fetched content.  A body is a sequence of characters.                   *)

Digit == {"0", "1", "2", "4", "5", "6", "9"}
Alpha ==
    {"a", "b", "A", "M", "P", "W", "e", "d", "N", "o", "v", "T", "h", "u",
     "s", "c", "r", "i", "p", "t", "f", "m", "n"}
Newline == "\n"
White == {" ", Newline}
Punct == {":", "/", "-", ",", "<", ">", "!"}
Chars == Digit \cup Alpha \cup White \cup Punct

(* no upper limit of a repetition: more than any body is long *)
Unlimited == 64

(* one item of a pattern: between min and max characters of a class, as   *)
(* many as possible, or with lazy as few as possible                      *)
Rep(class, min, max) == [class |-> class, min |-> min, max |-> max, lazy |-> FALSE]
Lazy(class, min, max) == [class |-> class, min |-> min, max |-> max, lazy |-> TRUE]
One(c) == Rep({c}, 1, 1)
Lit(str) == [k \in DOMAIN str |-> One(str[k])]

(* patterns_to_remove, the time and date patterns *)
TimePatterns ==
    << <<Rep(Digit, 1, 2), One(":"), Rep(Digit, 2, 2), One(":"), Rep(Digit, 2, 2)>>,
       <<Rep(Digit, 1, 2), One(":"), Rep(Digit, 2, 2)>>,
       <<Rep(Digit, 1, 2), One("/"), Rep(Digit, 1, 2), One("/"), Rep(Digit, 2, 4)>>,
       <<Rep(Digit, 4, 4), One("-"), Rep(Digit, 2, 2), One("-"), Rep(Digit, 2, 2)>>,
       <<Rep(Alpha, 3, 3), One(","), One(" "), Rep(Digit, 1, 2), One(" "),
         Rep(Alpha, 3, 3), One(" "), Rep(Digit, 4, 4)>> >>

RECURSIVE MatchEnd(_, _, _)
(* Where the match of pattern pat that starts after pos characters of text *)
(* ends, a repetition taking as many characters as lets the rest match, a  *)
(* lazy one as few; -1 when there is no match.                             *)
MatchEnd(pat, text, pos) ==
    IF pat = <<>> THEN pos
    ELSE LET item == Head(pat)
             Fits(n) == /\ pos + n <= Len(text)
                        /\ \A k \in pos + 1..pos + n : text[k] \in item.class
                        /\ MatchEnd(Tail(pat), text, pos + n) # -1
             counts == {n \in item.min..item.max : Fits(n)}
             most == CHOOSE n \in counts : \A m \in counts : m <= n
             least == CHOOSE n \in counts : \A m \in counts : n <= m
         IN  IF counts = {} THEN -1
             ELSE MatchEnd(Tail(pat), text, pos + IF item.lazy THEN least ELSE most)

RECURSIVE RemoveFrom(_, _, _)
(* re.replace_all(&cleaned, ""): the matches found from left to right, none *)
(* overlapping another                                                      *)
RemoveFrom(pat, text, pos) ==
    IF pos >= Len(text) THEN <<>>
    ELSE LET end == MatchEnd(pat, text, pos)
         IN  IF end = -1 THEN <<text[pos + 1]>> \o RemoveFrom(pat, text, pos + 1)
             ELSE RemoveFrom(pat, text, end)

replace_all(pat, text) == RemoveFrom(pat, text, 0)

RECURSIVE RemoveAll(_, _)
(* for pattern in patterns_to_remove { cleaned = re.replace_all(..) } *)
RemoveAll(pats, text) ==
    IF pats = <<>> THEN text ELSE RemoveAll(Tail(pats), replace_all(Head(pats), text))

RECURSIVE normalize_whitespace(_)
(* \s+ replaced by one space *)
normalize_whitespace(text) ==
    IF text = <<>> THEN text
    ELSE IF text[1] \notin White THEN <<text[1]>> \o normalize_whitespace(Tail(text))
    ELSE IF Len(text) >= 2 /\ text[2] \in White THEN normalize_whitespace(Tail(text))
    ELSE <<" ">> \o normalize_whitespace(Tail(text))

(* The pattern of a script, iframe or ins block: from the opening tag to   *)
(* the first closing tag after it, written with a look-ahead (?!           *)
TagPattern(tag) ==
    [lookahead |-> TRUE,
     items |-> Lit(<<"<">> \o tag) \o <<Lazy(Chars, 0, Unlimited)>>
               \o Lit(<<"<", "/">> \o tag \o <<">">>)]

(* <!--.*?-->: the dot matches any character but a line break *)
CommentPattern ==
    [lookahead |-> FALSE,
     items |-> Lit(<<"<", "!", "-", "-">>) \o <<Lazy(Chars \ {Newline}, 0, Unlimited)>>
               \o Lit(<<"-", "-", ">">>)]

Script == <<"s", "c", "r", "i", "p", "t">>
Iframe == <<"i", "f", "r", "a", "m", "e">>
Ins == <<"i", "n", "s">>

(* patterns_to_remove, the patterns of blocks of markup *)
BlockPatterns == <<TagPattern(Script), TagPattern(Iframe), CommentPattern, TagPattern(Ins)>>

(* regex::Regex::new(pattern) is Ok: the regex crate has no look-around *)
Compiles(pattern) == ~pattern.lookahead

(* if let Ok(re) = regex::Regex::new(pattern): the patterns that are applied *)
Compiled(pats) ==
    LET ok == SelectSeq(pats, Compiles) IN [k \in DOMAIN ok |-> ok[k].items]

(* only the first of the patterns is applied *)
clean_content_for_comparison_FirstPatternOnly(content) ==
    normalize_whitespace(RemoveAll(SubSeq(TimePatterns, 1, 1), content))

(* The bodies here hold no view count, JSON timestamp, article, main or    *)
(* content division: those patterns and the content selectors find nothing. *)
clean_content_for_comparison(content) ==
    normalize_whitespace(RemoveAll(TimePatterns \o Compiled(BlockPatterns), content))

Time1 == <<"1", "2", ":", "4", "0", ":", "0", "5">>
Time2 == <<"1", "2", ":", "4", "0", ":", "0", "9">>

Bodies == {<<"a">>, Time1 \o <<"a">>, Time2 \o <<"a">>, <<"b">>}

(* Sha256 is taken to be injective: the digest is the text it was made of. *)
Sha256Hex(text) == text

Fingerprint(body) == Sha256Hex(clean_content_for_comparison(body))

----------------------------------------------------------------------------
(* The tables *)

None == {}
Some(v) == {v}

SiteRow(interval_secs, style, last_checked) ==
    [interval_secs |-> interval_secs, style |-> style,
     last_checked |-> last_checked, last_updated |-> None, status |-> "NULL"]

UpdatesOf(rows, site_id) ==
    LET OfSite(r) == r.site_id = site_id IN SelectSeq(rows, OfSite)

(* SELECT diff_hash FROM updates WHERE site_id = ?1 ORDER BY id DESC LIMIT 1 *)
LatestHash(rows, site_id) ==
    LET mine == UpdatesOf(rows, site_id)
    IN  IF mine = <<>> THEN None ELSE Some(mine[Len(mine)].diff_hash)

(* last_hash.map_or(true, |h| h.0 != hash) *)
Changed(last_hash, hash) == last_hash = None \/ hash \notin last_hash

(* INSERT INTO updates(site_id, timestamp, diff_hash, content) *)
InsertUpdate(rows, id, site_id, timestamp, diff_hash, content) ==
    Append(rows, [id |-> id, site_id |-> site_id, timestamp |-> timestamp,
                  diff_hash |-> diff_hash, content |-> content])

(* DELETE FROM updates WHERE id IN (SELECT id FROM updates WHERE site_id = ?1 *)
(* ORDER BY id DESC LIMIT -1 OFFSET ?2): the rows of the site after the      *)
(* first update_cache_size in descending id order.                           *)
NewerOfSite(rows, r) ==
    Cardinality({i \in 1..Len(rows) :
                    rows[i].site_id = r.site_id /\ rows[i].id > r.id})

(* OFFSET one too small: the oldest row that should survive is deleted. *)
PruneUpdates_KeepsOneFewer(rows, site_id, update_cache_size) ==
    LET Kept(r) == r.site_id # site_id \/ NewerOfSite(rows, r) < update_cache_size - 1
    IN  SelectSeq(rows, Kept)

(* the site filter of the sub-select dropped: the newest rows of the whole *)
(* table survive                                                          *)
PruneUpdates_AcrossSites(rows, site_id, update_cache_size) ==
    LET Newer(r) == Cardinality({i \in 1..Len(rows) : rows[i].id > r.id})
        Kept(r) == Newer(r) < update_cache_size
    IN  SelectSeq(rows, Kept)

(* OFFSET off by one: one row too many survives. *)
PruneUpdates_KeepsOneMore(rows, site_id, update_cache_size) ==
    LET Kept(r) == r.site_id # site_id \/ NewerOfSite(rows, r) <= update_cache_size
    IN  SelectSeq(rows, Kept)

PruneUpdates(rows, site_id, update_cache_size) ==
    LET Kept(r) == r.site_id # site_id \/ NewerOfSite(rows, r) < update_cache_size
    IN  SelectSeq(rows, Kept)

(* UPDATE sites SET last_checked = ?1, status = ?2 WHERE id = ?3 *)
MarkChecked(tbl, site_id, at, status) ==
    IF site_id \in DOMAIN tbl
    THEN [tbl EXCEPT ![site_id].last_checked = Some(at), ![site_id].status = status]
    ELSE tbl

(* UPDATE sites SET last_updated = ?1 WHERE id = ?2 *)
MarkUpdated(tbl, site_id, at) ==
    IF site_id \in DOMAIN tbl
    THEN [tbl EXCEPT ![site_id].last_updated = Some(at)]
    ELSE tbl

----------------------------------------------------------------------------
(* run_scraper: which sites of the list read are due *)

(* now > next_check in place of now >= next_check *)
ShouldCheck_Strict(states, site_id, now) ==
    IF site_id \in DOMAIN states
    THEN now > states[site_id].next_check
    ELSE TRUE

ShouldCheck(states, site_id, now) ==
    IF site_id \in DOMAIN states
    THEN now >= states[site_id].next_check
    ELSE TRUE

DueSites(snap, states, now) ==
    {i \in DOMAIN snap : ShouldCheck(states, i, now)}

----------------------------------------------------------------------------
(* check_site: the next check time *)

(* the exponent left uncapped *)
BackoffInterval_NoCap(interval_secs, backoff_count) ==
    interval_secs * Pow2(backoff_count)

(* the exponent taken from the counter before its increment *)
BackoffInterval_OldCount(interval_secs, backoff_count) ==
    interval_secs * Pow2(Min(backoff_count - 1, BackoffCap))

(* site.interval_secs * 2i64.pow(backoff_count.min(10)) *)
BackoffInterval(interval_secs, backoff_count) ==
    interval_secs * Pow2(Min(backoff_count, BackoffCap))

(* the reset on success forgotten *)
NewBackoffCount_NoReset(style, success, backoff_count) ==
    IF style = "exponential" /\ ~success
    THEN backoff_count + 1
    ELSE backoff_count

(* the counter written back, from the one read *)
NewBackoffCount(style, success, backoff_count) ==
    IF style = "exponential"
    THEN (IF success THEN 0 ELSE backoff_count + 1)
    ELSE backoff_count

(* "none" sent through the exponential arm *)
NextCheckTime_FixedBacksOff(style, success, fetched_at, interval_secs, backoff_count, jitter_ms) ==
    CASE style = "random" ->
            fetched_at + (interval_secs * MsPerSec + jitter_ms)
      [] style \in {"exponential", "none"} ->
            IF success
            THEN fetched_at + interval_secs * MsPerSec
            ELSE fetched_at + interval_secs * Pow2(Min(backoff_count + 1, BackoffCap))
                              * MsPerSec
      [] OTHER -> fetched_at + interval_secs * MsPerSec

(* an unrecognised style given no next check of its own: due at once *)
NextCheckTime_UnknownDueAtOnce(style, success, fetched_at, interval_secs, backoff_count, jitter_ms) ==
    CASE style = "random" ->
            fetched_at + (interval_secs * MsPerSec + jitter_ms)
      [] style = "exponential" ->
            IF success
            THEN fetched_at + interval_secs * MsPerSec
            ELSE fetched_at + interval_secs * Pow2(Min(backoff_count + 1, BackoffCap))
                              * MsPerSec
      [] style = "none" -> fetched_at + interval_secs * MsPerSec
      [] OTHER -> fetched_at

(* the match on site.style; jitter_ms is the value gen_range returned *)
NextCheckTime(style, success, fetched_at, interval_secs, backoff_count, jitter_ms) ==
    CASE style = "random" ->
            fetched_at + (interval_secs * MsPerSec + jitter_ms)
      [] style = "exponential" ->
            IF success
            THEN fetched_at + interval_secs * MsPerSec
            ELSE fetched_at
                 + BackoffInterval(interval_secs,
                                   NewBackoffCount(style, success, backoff_count))
                   * MsPerSec
      [] OTHER -> fetched_at + interval_secs * MsPerSec

(* thread_rng().gen_range(0..config.interval_jitter_max_ms as u64): the   *)
(* values it can return; the range is empty, and gen_range panics, when   *)
(* interval_jitter_max_ms is 0.                                           *)
JitterRange(interval_jitter_max_ms) == 0..(interval_jitter_max_ms - 1)

----------------------------------------------------------------------------
(* State after construction.  The SiteState table, the task set and the    *)
(* channel are empty; the tables hold what an earlier run left in them.    *)

NoHist ==
    [dispatched |-> 0, inserted |-> <<>>, fails |-> 0, ends |-> <<>>,
     last |-> None, events |-> <<>>]

(* The schema: whether updates.site_id was declared ON DELETE CASCADE (the *)
(* table made by scraper_backend) or without it (the one made by init_db). *)
NoCalls(cascade) == [cascade |-> cascade, calls |-> {}, replies |-> {}, gone |-> <<>>]

NoEval == [out |-> None]

InitTables(registry, cfg, lim) ==
    /\ clock = 0
    /\ scheduler = [pc |-> "select", wake |-> 0, snap |-> <<>>,
                    due |-> {}, skipped |-> {}, upset |-> FALSE]
    /\ sites = registry
    /\ updates = <<>>
    /\ next_id = 1
    /\ site_states = <<>>
    /\ tasks = {}
    /\ sent = <<>>
    /\ receivers = <<>>
    /\ config = cfg
    /\ limits = lim
    /\ hist = [i \in DOMAIN registry |-> NoHist]

InitWith(registry, cfg, lim) ==
    /\ InitTables(registry, cfg, lim)
    /\ admin = NoCalls(TRUE)
    /\ eval = NoEval

AppConfig(update_cache_size, interval_jitter_max_ms) ==
    [update_cache_size |-> update_cache_size,
     interval_jitter_max_ms |-> interval_jitter_max_ms]

(* What one run may use up: check tasks spawned, tasks alive at once,     *)
(* failing storage operations, requests the remote servers answer, the    *)
(* instant up to which time moves in tick periods, the bodies the servers *)
(* may return and the number of ended checks remembered in order; event    *)
(* streams are opened only in the runs that say so.                       *)
Limits(dispatches, inflight, faults, responses, horizon, pages, log) ==
    [dispatches |-> dispatches, inflight |-> inflight, faults |-> faults,
     responses |-> responses, horizon |-> horizon, pages |-> pages, log |-> log,
     failed |-> 0, subscribers |-> 0, deletes |-> 0]

OnePage == {<<"a">>}
SamePages == {<<"a">>, Time1 \o <<"a">>, Time2 \o <<"a">>}

Registry1(intervals, styles) ==
    {[i \in {1} |-> SiteRow(n, st, None)] : n \in intervals, st \in styles}

(* Every style and interval, checks one after the other. *)
PolicyRuns ==
    {<<r, AppConfig(1, j), Limits(2, 1, 0, 2, MaxClock, OnePage, 0)>> :
        r \in Registry1(0..MaxIntervalSecs, Styles), j \in 0..MaxJitterMs}

(* A backoff site whose server answers at most once in a long run. *)
BackoffRuns ==
    {<<r, AppConfig(1, 1), Limits(DeepDispatch, 1, 0, 1, 0, OnePage, LogCap)>> :
        r \in Registry1((1..MaxIntervalSecs) \cup {10}, {"exponential"})}

(* Checks of one site that overlap, with failing storage operations. *)
OverlapRuns ==
    {<<r, AppConfig(1, 1),
       Limits(MaxInFlight + 1, MaxInFlight, f, MaxInFlight + 1, MaxClock, pages, 0)>> :
        r \in Registry1({0}, {"exponential", "none"}), f \in 0..MaxFaults,
        pages \in {OnePage, {<<"a">>, <<"b">>}}}

(* A fixed-interval site checked one check after the other. *)
HistoryRuns ==
    {<<r, AppConfig(k, 1), Limits(MaxDispatch, 1, 0, MaxDispatch, 0, pages, 0)>> :
        r \in Registry1({1}, {"none"}), k \in 1..MaxCacheSize,
        pages \in {SamePages, Bodies}}
    \cup
    {<<r, AppConfig(1, 1), Limits(MaxDispatch, 1, f, MaxDispatch, 0, OnePage, 0)>> :
        r \in Registry1({1}, {"none"}), f \in 1..MaxFaults}

(* Two sites with different intervals, checked by an earlier run or not. *)
TwoSites ==
    {[i \in {1, 2} |-> SiteRow(IF i = 1 THEN 0 ELSE 1, st, lc)] :
        st \in {"weekly"}, lc \in {None, Some(0)}}

TwoSiteRuns ==
    {<<r, AppConfig(1, 1), Limits(3, 2, f, 3, MaxClock, OnePage, 0)>> :
        r \in TwoSites, f \in 0..MaxFaults}

(* A site whose content changes at every check, watched by event streams. *)
StreamRuns ==
    {<<r, AppConfig(1, 1),
       [Limits(MaxDispatch, 1, 0, MaxDispatch, 0, {<<"a">>, <<"b">>}, 0)
            EXCEPT !.subscribers = MaxSubscribers]>> :
        r \in Registry1({1}, {"none"})}

(* Overlapping checks of a site with an interval, the first to start the *)
(* last to end.                                                          *)
LateWriterRuns ==
    {<<r, AppConfig(1, 1),
       Limits(MaxInFlight + 1, MaxInFlight, 0, MaxInFlight + 1, MaxClock, OnePage,
              LogCap)>> :
        r \in Registry1({1}, {"none", "exponential"})}

Scenarios ==
    PolicyRuns \cup BackoffRuns \cup OverlapRuns \cup HistoryRuns \cup TwoSiteRuns
    \cup StreamRuns \cup LateWriterRuns

Init == \E sc \in Scenarios : InitWith(sc[1], sc[2], sc[3])

----------------------------------------------------------------------------
(* Time passes: by one tick period while the horizon is not reached, or up *)
(* to the next instant at which a site falls due.                          *)

DueInstants == {site_states[i].next_check : i \in DOMAIN site_states}

Advance ==
    /\ \E t \in {clock + TickMs} \cup {d \in DueInstants : d > clock} :
          /\ t = clock + TickMs => t <= limits.horizon
          /\ clock' = t
    /\ UNCHANGED <<scheduler, sites, updates, next_id, site_states, tasks,
                   sent, config, eval, admin, receivers, limits, hist>>

----------------------------------------------------------------------------
(* run_scraper *)

Fault == [limits EXCEPT !.faults = @ - 1, !.failed = @ + 1]

(* SELECT * FROM sites ... unwrap_or_default(): the list read, or the empty *)
(* list when the query fails.                                               *)
Snapshot(tbl) ==
    [i \in DOMAIN tbl |->
        [interval_secs |-> tbl[i].interval_secs, style |-> tbl[i].style]]

(* Whether, when an iteration starts, a query has failed or a check task *)
(* has panicked earlier in the run.                                      *)
Upset ==
    \/ limits.failed > 0
    \/ \E i \in DOMAIN hist : \E e \in hist[i].last : e.kind = "panic"

(* a failed query ends run_scraper *)
SelectSites_FailureEndsLoop ==
    /\ scheduler.pc = "select"
    /\ clock >= scheduler.wake
    /\ \/ /\ scheduler' = [scheduler EXCEPT !.pc = "loop", !.snap = Snapshot(sites),
                                              !.upset = Upset]
          /\ UNCHANGED limits
       \/ /\ limits.faults > 0
          /\ scheduler' = [scheduler EXCEPT !.pc = "stopped", !.snap = <<>>,
                                              !.upset = Upset]
          /\ limits' = Fault
    /\ UNCHANGED <<clock, sites, updates, next_id, site_states, tasks, sent,
                   receivers, config, eval, admin, hist>>

SelectSites ==
    /\ scheduler.pc = "select"
    /\ clock >= scheduler.wake
    /\ \/ /\ scheduler' = [scheduler EXCEPT !.pc = "loop", !.snap = Snapshot(sites),
                                              !.upset = Upset]
          /\ UNCHANGED limits
       \/ /\ limits.faults > 0
          /\ scheduler' = [scheduler EXCEPT !.pc = "loop", !.snap = <<>>,
                                              !.upset = Upset]
          /\ limits' = Fault
    /\ UNCHANGED <<clock, sites, updates, next_id, site_states, tasks, sent,
                   config, eval, admin, receivers, hist>>

NewTask(site_id, snap, seq) ==
    [site_id |-> site_id, seq |-> seq,
     interval_secs |-> snap[site_id].interval_secs, style |-> snap[site_id].style,
     pc |-> "send", fetched_at |-> 0, success |-> TRUE, body |-> <<>>,
     hash |-> <<>>, truth |-> None, changed |-> FALSE, published |-> FALSE,
     row |-> None, faulted |-> FALSE]

(* let now = Utc::now(); for site in sites { ... tokio::spawn(check_site) } *)
(* sleep(100 ms)                                                            *)
DispatchLoop ==
    /\ scheduler.pc = "loop"
    /\ LET due == DueSites(scheduler.snap, site_states, clock)
       IN  /\ Cardinality(due) <= limits.dispatches
           /\ Cardinality(tasks) + Cardinality(due) <= limits.inflight
           /\ tasks' = tasks \cup
                 {NewTask(i, scheduler.snap, hist[i].dispatched + 1) : i \in due}
           /\ limits' = [limits EXCEPT !.dispatches = @ - Cardinality(due)]
           /\ hist' = [i \in DOMAIN hist |->
                         IF i \in due
                         THEN [hist[i] EXCEPT !.dispatched = @ + 1]
                         ELSE hist[i]]
    /\ scheduler' = [pc |-> "select", wake |-> clock + TickMs, snap |-> <<>>,
                     upset |-> scheduler.upset,
                     due |-> DueSites(scheduler.snap, site_states, clock),
                     skipped |-> DOMAIN scheduler.snap
                                 \ DueSites(scheduler.snap, site_states, clock)]
    /\ UNCHANGED <<clock, sites, updates, next_id, site_states, sent, config, eval, admin, receivers>>

----------------------------------------------------------------------------
(* check_site *)

Replace(t, u) == (tasks \ {t}) \cup {u}

EndRecord(t, kind, next_check, before, after) ==
    [seq |-> t.seq, kind |-> kind, at |-> t.pc, style |-> t.style,
     interval_secs |-> t.interval_secs, success |-> t.success,
     fetched_at |-> t.fetched_at, next_check |-> next_check,
     before |-> before, after |-> after, faulted |-> t.faulted]

RecordEnd(h, rec, cap) ==
    [h EXCEPT !.last = Some(rec),
              !.ends = IF Len(@) < cap THEN Append(@, rec) ELSE @,
              !.fails = IF rec.kind # "wrote" THEN @
                        ELSE IF rec.success THEN 0 ELSE @ + 1]

(* A failed unwrap() or a panicking call ends the task where it stands. *)
Panicked(t) ==
    /\ tasks' = tasks \ {t}
    /\ hist' = [hist EXCEPT ![t.site_id] =
                   RecordEnd(@, EndRecord(t, "panic", 0, 0, 0), limits.log)]

(* client.get(&site.url).send().await; let fetched_at = Utc::now() *)
Send(t) ==
    /\ t.pc = "send"
    /\ \/ /\ limits.responses > 0
          /\ limits' = [limits EXCEPT !.responses = @ - 1]
          /\ tasks' = Replace(t, [t EXCEPT !.pc = "text", !.fetched_at = clock])
       \/ /\ tasks' = Replace(t, [t EXCEPT !.pc = "mark_error", !.fetched_at = clock,
                                           !.success = FALSE])
          /\ UNCHANGED limits
    /\ UNCHANGED <<clock, scheduler, sites, updates, next_id, site_states,
                   sent, config, eval, admin, receivers, hist>>

(* resp.text().await, then the fingerprint of the cleaned body *)
Text(t) ==
    /\ t.pc = "text"
    /\ \/ /\ \E body \in limits.pages :
                tasks' = Replace(t, [t EXCEPT !.pc = "select_last", !.body = body,
                                              !.hash = Fingerprint(body)])
          /\ hist' = hist
       \/ /\ tasks' = Replace(t, [t EXCEPT !.pc = "finish", !.success = FALSE])
          /\ hist' = hist
    /\ UNCHANGED <<clock, scheduler, sites, updates, next_id, site_states,
                   sent, config, eval, admin, receivers, limits>>

(* SELECT diff_hash ... .ok().flatten(): a failed query reads as no row *)
SelectLast(t) ==
    /\ t.pc = "select_last"
    /\ LET truth == LatestHash(updates, t.site_id)
       IN  \/ /\ tasks' = Replace(t, [t EXCEPT !.pc = "mark_ok", !.truth = truth,
                                        !.changed = Changed(truth, t.hash)])
              /\ UNCHANGED limits
           \/ /\ limits.faults > 0
              /\ tasks' = Replace(t, [t EXCEPT !.pc = "mark_ok", !.truth = truth,
                                        !.changed = Changed(None, t.hash),
                                        !.faulted = TRUE])
              /\ limits' = Fault
    /\ UNCHANGED <<clock, scheduler, sites, updates, next_id, site_states,
                   sent, config, eval, admin, receivers, hist>>

(* UPDATE sites SET last_checked = ?1, status = 'OK' ... .unwrap() *)
MarkOk(t) ==
    /\ t.pc = "mark_ok"
    /\ \/ /\ sites' = MarkChecked(sites, t.site_id, t.fetched_at, "OK")
          /\ tasks' = Replace(t, [t EXCEPT !.pc = "insert"])
          /\ UNCHANGED <<limits, hist>>
       \/ /\ limits.faults > 0
          /\ limits' = Fault
          /\ Panicked(t)
          /\ UNCHANGED sites
    /\ UNCHANGED <<clock, scheduler, updates, next_id, site_states, sent, config, eval, admin, receivers>>

(* FOREIGN KEY(site_id) REFERENCES sites(id), enforced on every connection *)
(* of the pool: a row of updates needs its site.                           *)
SiteExists(tbl, site_id) == site_id \in DOMAIN tbl

(* the row stored only for content judged changed *)
Insert_OnlyWhenChanged(t) ==
    /\ t.pc = "insert"
    /\ \/ /\ SiteExists(sites, t.site_id)
          /\ updates' = IF t.changed
                        THEN InsertUpdate(updates, next_id, t.site_id, t.fetched_at,
                                          t.hash, t.body)
                        ELSE updates
          /\ next_id' = IF t.changed THEN next_id + 1 ELSE next_id
          /\ tasks' = Replace(t, [t EXCEPT !.pc = IF t.changed THEN "publish"
                                                  ELSE "prune",
                                           !.row = IF t.changed THEN Some(next_id)
                                                   ELSE None])
          /\ hist' = IF t.changed
                     THEN [hist EXCEPT ![t.site_id].inserted = Append(@, next_id)]
                     ELSE hist
          /\ UNCHANGED limits
       \/ /\ limits.faults > 0 \/ ~SiteExists(sites, t.site_id)
          /\ limits' = IF SiteExists(sites, t.site_id) THEN Fault ELSE limits
          /\ Panicked(t)
          /\ UNCHANGED <<updates, next_id>>
    /\ UNCHANGED <<clock, scheduler, sites, site_states, sent, config, eval, admin, receivers>>

(* the foreign key not enforced *)
Insert_NoForeignKey(t) ==
    /\ t.pc = "insert"
    /\ \/ /\ updates' = InsertUpdate(updates, next_id, t.site_id, t.fetched_at,
                                     t.hash, t.body)
          /\ next_id' = next_id + 1
          /\ tasks' = Replace(t, [t EXCEPT !.pc = IF t.changed THEN "publish"
                                                  ELSE "prune",
                                           !.row = Some(next_id)])
          /\ hist' = [hist EXCEPT ![t.site_id].inserted = Append(@, next_id)]
          /\ UNCHANGED limits
       \/ /\ limits.faults > 0
          /\ limits' = Fault
          /\ Panicked(t)
          /\ UNCHANGED <<updates, next_id>>
    /\ UNCHANGED <<clock, scheduler, sites, site_states, sent, config, eval, admin, receivers>>

(* INSERT INTO updates ... .unwrap() *)
Insert(t) ==
    /\ t.pc = "insert"
    /\ \/ /\ SiteExists(sites, t.site_id)
          /\ updates' = InsertUpdate(updates, next_id, t.site_id, t.fetched_at,
                                     t.hash, t.body)
          /\ next_id' = next_id + 1
          /\ tasks' = Replace(t, [t EXCEPT !.pc = IF t.changed THEN "publish"
                                                  ELSE "prune",
                                           !.row = Some(next_id)])
          /\ hist' = [hist EXCEPT ![t.site_id].inserted = Append(@, next_id)]
          /\ UNCHANGED limits
       \/ /\ limits.faults > 0 \/ ~SiteExists(sites, t.site_id)
          /\ limits' = IF SiteExists(sites, t.site_id) THEN Fault ELSE limits
          /\ Panicked(t)
          /\ UNCHANGED <<updates, next_id>>
    /\ UNCHANGED <<clock, scheduler, sites, site_states, sent, config, eval, admin, receivers>>

(* let _ = tx.send(UpdateMessage { ... }) *)
UpdateMessage(t) ==
    [site_id |-> t.site_id, timestamp |-> t.fetched_at, diff_hash |-> t.hash,
     has_full_content |-> TRUE]

(* a channel that makes the sender wait while a receiver is a full buffer *)
(* behind                                                                 *)
Publish_WaitsForReceivers(t) ==
    /\ t.pc = "publish"
    /\ \A k \in DOMAIN receivers :
          receivers[k].state = "open" =>
              Len(sent) - receivers[k].next + 1 < ChannelCap
    /\ sent' = Append(sent, UpdateMessage(t))
    /\ tasks' = Replace(t, [t EXCEPT !.pc = "mark_updated", !.published = TRUE])
    /\ hist' = [hist EXCEPT ![t.site_id].events = @ \o SetToSeq(t.row)]
    /\ UNCHANGED <<clock, scheduler, sites, updates, next_id, site_states,
                   config, eval, admin, receivers, limits>>

Publish(t) ==
    /\ t.pc = "publish"
    /\ sent' = Append(sent, UpdateMessage(t))
    /\ tasks' = Replace(t, [t EXCEPT !.pc = "mark_updated", !.published = TRUE])
    /\ hist' = [hist EXCEPT ![t.site_id].events = @ \o SetToSeq(t.row)]
    /\ UNCHANGED <<clock, scheduler, sites, updates, next_id, site_states,
                   config, eval, admin, receivers, limits>>

(* UPDATE sites SET last_updated = ?1 ... .unwrap() *)
MarkLastUpdated(t) ==
    /\ t.pc = "mark_updated"
    /\ \/ /\ sites' = MarkUpdated(sites, t.site_id, t.fetched_at)
          /\ tasks' = Replace(t, [t EXCEPT !.pc = "prune"])
          /\ UNCHANGED <<limits, hist>>
       \/ /\ limits.faults > 0
          /\ limits' = Fault
          /\ Panicked(t)
          /\ UNCHANGED sites
    /\ UNCHANGED <<clock, scheduler, updates, next_id, site_states, sent, config, eval, admin, receivers>>

(* DELETE FROM updates ... LIMIT -1 OFFSET ?2 ... .unwrap() *)
Prune(t) ==
    /\ t.pc = "prune"
    /\ \/ /\ updates' = PruneUpdates(updates, t.site_id, config.update_cache_size)
          /\ tasks' = Replace(t, [t EXCEPT !.pc = "finish"])
          /\ UNCHANGED <<limits, hist>>
       \/ /\ limits.faults > 0
          /\ limits' = Fault
          /\ Panicked(t)
          /\ UNCHANGED updates
    /\ UNCHANGED <<clock, scheduler, sites, next_id, site_states, sent, config, eval, admin, receivers>>

(* UPDATE sites SET last_checked = ?1, status = 'ERROR' ... .unwrap() *)
MarkError(t) ==
    /\ t.pc = "mark_error"
    /\ \/ /\ sites' = MarkChecked(sites, t.site_id, t.fetched_at, "ERROR")
          /\ tasks' = Replace(t, [t EXCEPT !.pc = "finish"])
          /\ UNCHANGED <<limits, hist>>
       \/ /\ limits.faults > 0
          /\ limits' = Fault
          /\ Panicked(t)
          /\ UNCHANGED sites
    /\ UNCHANGED <<clock, scheduler, updates, next_id, site_states, sent, config, eval, admin, receivers>>

(* The counter read back from the SiteState table, 0 when there is none. *)
CurrentBackoff(states, site_id) ==
    IF site_id \in DOMAIN states THEN states[site_id].backoff_count ELSE 0

(* scraper.rs:174-213: read the counter, compute the next check time, and *)
(* insert the new SiteCheckState.                                         *)
WriteState(t, jitter_ms) ==
    LET before == CurrentBackoff(site_states, t.site_id)
        after == NewBackoffCount(t.style, t.success, before)
        next_check_time == NextCheckTime(t.style, t.success, t.fetched_at,
                                         t.interval_secs, before, jitter_ms)
    IN  /\ site_states' = (t.site_id :> [next_check |-> next_check_time,
                                         backoff_count |-> after]) @@ site_states
        /\ tasks' = tasks \ {t}
        /\ hist' = [hist EXCEPT ![t.site_id] =
                       RecordEnd(@, EndRecord(t, "wrote", next_check_time,
                                              before, after), limits.log)]

Finish(t) ==
    /\ t.pc = "finish"
    /\ IF t.style = "random"
       THEN IF JitterRange(config.interval_jitter_max_ms) = {}
            THEN Panicked(t) /\ UNCHANGED site_states
            ELSE \E jitter_ms \in JitterRange(config.interval_jitter_max_ms) :
                    WriteState(t, jitter_ms)
       ELSE WriteState(t, 0)
    /\ UNCHANGED <<clock, scheduler, sites, updates, next_id, sent, config, eval, admin, receivers, limits>>

----------------------------------------------------------------------------
(* sse_updates: one broadcast receiver per open event stream.  A receiver   *)
(* sees the messages sent after it subscribed; the channel retains the last *)
(* ChannelCap messages, and recv() on a receiver whose next message is no   *)
(* longer retained returns Err(Lagged).                                     *)

NewReceiver(tail) ==
    [from |-> tail + 1, next |-> tail + 1, received |-> <<>>, state |-> "open"]

(* let mut rx = data.tx_updates.subscribe() *)
Subscribe ==
    /\ limits.subscribers > 0
    /\ limits' = [limits EXCEPT !.subscribers = @ - 1]
    /\ receivers' = Append(receivers, NewReceiver(Len(sent)))
    /\ UNCHANGED <<clock, scheduler, sites, updates, next_id, site_states, tasks,
                   sent, config, eval, admin, hist>>

Lagged(rx, tail) == tail - rx.next + 1 > ChannelCap

(* the newest message handed out in place of the receiver's next one *)
RecvValue_Latest(log, rx) == log[Len(log)]

(* Ok(msg) of rx.recv() *)
RecvValue(log, rx) == log[rx.next]

(* while let Ok(msg) = rx.recv().await { yield ... }: the message is        *)
(* yielded, or the loop, and with it the stream, ends on Err(Lagged).       *)
Recv(k) ==
    /\ receivers[k].state = "open"
    /\ receivers[k].next <= Len(sent)
    /\ \/ /\ ~Lagged(receivers[k], Len(sent))
          /\ receivers' = [receivers EXCEPT
                              ![k].received = Append(@, RecvValue(sent, receivers[k])),
                              ![k].next = @ + 1]
       \/ /\ Lagged(receivers[k], Len(sent))
          /\ receivers' = [receivers EXCEPT ![k].state = "lagged"]
    /\ UNCHANGED <<clock, scheduler, sites, updates, next_id, site_states, tasks,
                   sent, config, eval, admin, limits, hist>>

(* The client closes the connection: the stream and its receiver are dropped. *)
Close(k) ==
    /\ receivers[k].state = "open"
    /\ receivers' = [receivers EXCEPT ![k].state = "closed"]
    /\ UNCHANGED <<clock, scheduler, sites, updates, next_id, site_states, tasks,
                   sent, config, eval, admin, limits, hist>>

----------------------------------------------------------------------------
Next ==
    \/ Advance
    \/ SelectSites
    \/ DispatchLoop
    \/ \E t \in tasks : Send(t)
    \/ \E t \in tasks : Text(t)
    \/ \E t \in tasks : SelectLast(t)
    \/ \E t \in tasks : MarkOk(t)
    \/ \E t \in tasks : Insert(t)
    \/ \E t \in tasks : Publish(t)
    \/ \E t \in tasks : MarkLastUpdated(t)
    \/ \E t \in tasks : Prune(t)
    \/ \E t \in tasks : MarkError(t)
    \/ \E t \in tasks : Finish(t)
    \/ Subscribe
    \/ \E k \in DOMAIN receivers : Recv(k)
    \/ \E k \in DOMAIN receivers : Close(k)

Spec == Init /\ [][Next]_vars

(* run_scraper is a task of the runtime: it runs on when its query or its *)
(* sleep has completed.                                                   *)
LiveSpec ==
    Init /\ [][Next]_vars /\ WF_vars(SelectSites) /\ WF_vars(DispatchLoop)

----------------------------------------------------------------------------
(* extract_formatted_preview.  A &str is a sequence of characters, each of  *)
(* one or more bytes; str::len() and the bounds of a slice count bytes,     *)
(* chars().nth(i) counts characters.                                        *)

Letters == {"x", " ", ".", "é"}

(* char::len_utf8 *)
Width(c) == IF c = "é" THEN 2 ELSE 1

RECURSIVE ByteLen(_)
(* str::len *)
ByteLen(text) == IF text = <<>> THEN 0 ELSE Width(Head(text)) + ByteLen(Tail(text))

Returned(v) == [ok |-> TRUE, value |-> v]

(* the call panicked *)
Unwound == [ok |-> FALSE, value |-> <<>>]

(* &text[..n]: the characters before byte n; panics when n is inside a *)
(* character                                                           *)
SliceTo(text, n) ==
    LET ends == {k \in 0..Len(text) : ByteLen(SubSeq(text, 1, k)) = n}
    IN  IF ends = {} THEN Unwound
        ELSE Returned(SubSeq(text, 1, CHOOSE k \in ends : TRUE))

RECURSIVE ScanBack(_, _, _)
(* for i in (0..max_length).rev() { if i < text.len() { let c =          *)
(* text.chars().nth(i).unwrap(); if breaks.contains(&c) { return i + 1 } } } *)
(* from index i down: the value returned, None when the loop ends, or the *)
(* panic of unwrap() on a text of no more than i characters               *)
ScanBack(text, i, breaks) ==
    IF i < 0 THEN Returned(None)
    ELSE IF i < ByteLen(text)
         THEN IF i >= Len(text) THEN Unwound
              ELSE IF text[i + 1] \in breaks THEN Returned(Some(i + 1))
              ELSE ScanBack(text, i - 1, breaks)
         ELSE ScanBack(text, i - 1, breaks)

(* break_chars and sentence_breaks, of the characters in Letters *)
WordBreaks == {" ", "."}
SentenceBreaks == {"."}

find_word_boundary(text, max_length) ==
    IF ByteLen(text) <= max_length THEN Returned(ByteLen(text))
    ELSE LET found == ScanBack(text, max_length - 1, WordBreaks)
         IN  IF ~found.ok THEN Unwound
             ELSE IF found.value = None THEN Returned(max_length)
             ELSE Returned(CHOOSE n \in found.value : TRUE)

find_sentence_boundary(text, max_length) ==
    IF ByteLen(text) <= max_length THEN Returned(ByteLen(text))
    ELSE LET found == ScanBack(text, max_length - 1, SentenceBreaks)
         IN  IF ~found.ok THEN Unwound
             ELSE IF found.value = None THEN find_word_boundary(text, max_length)
             ELSE Returned(CHOOSE n \in found.value : TRUE)

(* format!("{}...", &text[..cutoff]) *)
Truncated(text, cutoff) ==
    IF ~cutoff.ok THEN Unwound
    ELSE LET cut == SliceTo(text, cutoff.value)
         IN  IF cut.ok THEN Returned(cut.value \o <<".", ".", ".">>) ELSE Unwound

extract_json_preview(json, max_length) ==
    IF ByteLen(json) > max_length
    THEN LET sample == Truncated(json, find_word_boundary(json, max_length))
         IN  IF sample.ok THEN Returned(<<"JSON Data">> \o sample.value) ELSE Unwound
    ELSE Returned(<<"JSON Data">> \o json)

RECURSIVE TrimStart(_)
TrimStart(text) ==
    IF text # <<>> /\ Head(text) = " " THEN TrimStart(Tail(text)) ELSE text

RECURSIVE TrimEnd(_)
TrimEnd(text) ==
    IF text # <<>> /\ text[Len(text)] = " "
    THEN TrimEnd(SubSeq(text, 1, Len(text) - 1)) ELSE text

(* str::trim *)
Trim(text) == TrimEnd(TrimStart(text))

(* A document without markup: no title, no h1, no element of the content *)
(* selectors; the text is the text of body.                              *)
html_content_text(html) == normalize_whitespace(Trim(html))

extract_html_preview(html, max_length) ==
    LET content_text == html_content_text(html)
    IN  IF content_text # <<>>
        THEN IF ByteLen(content_text) > max_length
             THEN Truncated(content_text, find_sentence_boundary(content_text, max_length))
             ELSE Returned(content_text)
        ELSE Returned(<<"Unable to extract readable content from this page.">>)

(* str::contains, starts_with, ends_with *)
IsAt(pat, text, k) ==
    /\ k + Len(pat) <= Len(text)
    /\ \A n \in 1..Len(pat) : text[k + n] = pat[n]

Contains(text, pat) == \E k \in 0..Len(text) : IsAt(pat, text, k)

StartsWith(text, c) == text # <<>> /\ Head(text) = c
EndsWith(text, c) == text # <<>> /\ text[Len(text)] = c

(* "<?xml", "<rss", "<feed", "<item>", "<entry>" *)
FeedMarkers ==
    {<<"<", "?", "x", "m", "l">>, <<"<", "r", "s", "s">>, <<"<", "f", "e", "e", "d">>,
     <<"<", "i", "t", "e", "m", ">">>, <<"<", "e", "n", "t", "r", "y", ">">>}

(* "/u/DeepFuckingValue", "r/wallstreetbets", "reddit.com" *)
RedditMarkers ==
    {<<"/", "u", "/", "D", "e", "e", "p", "F", "u", "c", "k", "i", "n", "g", "V", "a",
       "l", "u", "e">>,
     <<"r", "/", "w", "a", "l", "l", "s", "t", "r", "e", "e", "t", "b", "e", "t", "s">>,
     <<"r", "e", "d", "d", "i", "t", ".", "c", "o", "m">>}

(* "function(", "var ", "const " *)
ScriptMarkers ==
    {<<"f", "u", "n", "c", "t", "i", "o", "n", "(">>, <<"v", "a", "r", " ">>,
     <<"c", "o", "n", "s", "t", " ">>}

IsFeed(content) == \E m \in FeedMarkers : Contains(content, m)
IsReddit(content) == \E m \in RedditMarkers : Contains(content, m)
IsJson(content) ==
    \/ StartsWith(content, "{") /\ EndsWith(content, "}")
    \/ StartsWith(content, "[") /\ EndsWith(content, "]")
IsScript(content) == \E m \in ScriptMarkers : Contains(content, m)

(* the Reddit test made before the feed test *)
Extractor_RedditFirst(content) ==
    IF IsReddit(content) THEN "extract_reddit_preview"
    ELSE IF IsFeed(content) THEN "extract_rss_preview"
    ELSE IF IsJson(content) THEN "extract_json_preview"
    ELSE IF IsScript(content) THEN "clean_script_content"
    ELSE "extract_html_preview"

(* the if chain of extract_formatted_preview: the branch taken *)
Extractor(content) ==
    IF IsFeed(content) THEN "extract_rss_preview"
    ELSE IF IsReddit(content) THEN "extract_reddit_preview"
    ELSE IF IsJson(content) THEN "extract_json_preview"
    ELSE IF IsScript(content) THEN "clean_script_content"
    ELSE "extract_html_preview"

(* Regex <name[^>]*>(.*?)</name>, captures(xml).get(1): the text between *)
(* the first opening tag that is closed later and the first closing tag  *)
(* after it                                                              *)
Capture(xml, open, close) ==
    LET TagEnd(st) == {g \in st + Len(open)..Len(xml) - 1 :
                          /\ xml[g + 1] = ">"
                          /\ \A h \in st + Len(open)..g - 1 : xml[h + 1] # ">"}
        Ends(b) == {e \in b..Len(xml) : IsAt(close, xml, e)}
        starts == {st \in 0..Len(xml) :
                      /\ IsAt(open, xml, st)
                      /\ \E g \in TagEnd(st) : Ends(g + 1) # {}}
    IN  IF starts = {} THEN None
        ELSE LET st == CHOOSE a \in starts : \A b \in starts : a <= b
                 g == CHOOSE a \in TagEnd(st) : TRUE
                 e == CHOOSE a \in Ends(g + 1) : \A b \in Ends(g + 1) : a <= b
             IN  Some(SubSeq(xml, g + 2, e))

TitleOpen == <<"<", "t", "i", "t", "l", "e">>
TitleClose == <<"<", "/", "t", "i", "t", "l", "e", ">">>
ContentOpen == <<"<", "c", "o", "n", "t", "e", "n", "t">>
ContentClose == <<"<", "/", "c", "o", "n", "t", "e", "n", "t", ">">>
DescriptionOpen == <<"<", "d", "e", "s", "c", "r", "i", "p", "t", "i", "o", "n">>
DescriptionClose == <<"<", "/", "d", "e", "s", "c", "r", "i", "p", "t", "i", "o", "n", ">">>

(* an Option<&str> as a String, empty for None *)
OrEmpty(captured) == IF captured = None THEN <<>> ELSE CHOOSE text \in captured : TRUE

(* The bodies hold no entity and no CDATA section: clean_xml_entities *)
(* changes nothing and the CDATA pattern finds nothing.               *)
rss_content_text(xml) ==
    LET content == OrEmpty(Capture(xml, ContentOpen, ContentClose))
    IN  IF content # <<>> THEN content
        ELSE OrEmpty(Capture(xml, DescriptionOpen, DescriptionClose))

(* the text is not cut *)
Limited_NotCut(text, max_length, cutoff) ==
    IF ByteLen(text) > max_length THEN Returned(text \o <<".", ".", ".">>)
    ELSE Returned(text)

(* if text.len() > max_length { format!("{}...", &text[..cutoff]) } else { text } *)
Limited(text, max_length, cutoff) ==
    IF ByteLen(text) > max_length THEN Truncated(text, cutoff) ELSE Returned(text)

(* preview.push_str(..) in front of a part that may have panicked *)
Pushed(head, part) == IF part.ok THEN Returned(head \o part.value) ELSE Unwound

extract_rss_preview(xml, max_length) ==
    LET title == OrEmpty(Capture(xml, TitleOpen, TitleClose))
        preview == IF title # <<>> THEN <<"[title]">> \o title \o <<"[break]">>
                   ELSE <<>>
        content_text == rss_content_text(xml)
        cutoff == find_word_boundary(content_text, max_length)
    IN  IF content_text # <<>>
        THEN IF ~cutoff.ok THEN Unwound
             ELSE Pushed(preview, Limited(content_text, max_length, cutoff))
        ELSE IF preview # <<>>
             THEN Returned(preview \o <<"[RSS feed detected - content not available]">>)
             ELSE Returned(<<"RSS/XML content detected, but couldn't extract readable content.">>)

(* The bodies are one line and hold no "GME YOLO", "/u/", "r/", "function" *)
(* or ".js": the line is kept when it has no "var ", is not blank and is   *)
(* longer than 5 bytes.                                                    *)
reddit_cleaned(content) ==
    IF /\ ~Contains(content, <<"v", "a", "r", " ">>)
       /\ Trim(content) # <<>>
       /\ ByteLen(content) > 5
    THEN content ELSE <<>>

extract_reddit_preview(content, max_length) ==
    LET cleaned == reddit_cleaned(content)
        cutoff == find_word_boundary(cleaned, max_length)
    IN  IF cleaned # <<>>
        THEN IF ~cutoff.ok THEN Unwound
             ELSE Pushed(<<"Reddit Updates">>, Limited(cleaned, max_length, cutoff))
        ELSE Returned(<<"Reddit Updates">>)

(* The bodies that come here hold no brace, "=", "(" or "/": none of the *)
(* js_patterns matches, and the white space is normalised.               *)
clean_script_content(text) == normalize_whitespace(text)

(* the branch for JavaScript code *)
script_preview(content, max_length) ==
    LET cleaned == clean_script_content(content)
    IN  Pushed(<<"Content Preview">>,
              IF ByteLen(cleaned) > max_length
              THEN Truncated(cleaned, find_word_boundary(cleaned, max_length))
              ELSE Returned(cleaned))

extract_formatted_preview(content, max_length) ==
    CASE Extractor(content) = "extract_rss_preview" ->
            extract_rss_preview(content, max_length)
      [] Extractor(content) = "extract_reddit_preview" ->
            extract_reddit_preview(content, max_length)
      [] Extractor(content) = "extract_json_preview" ->
            extract_json_preview(content, max_length)
      [] Extractor(content) = "clean_script_content" ->
            script_preview(content, max_length)
      [] OTHER -> extract_html_preview(content, max_length)

Texts == UNION {[1..n -> Letters] : n \in 0..MaxChars}

Rss == <<"<", "r", "s", "s">>
Reddit == <<"r", "e", "d", "d", "i", "t", ".", "c", "o", "m">>
Var == <<"v", "a", "r", " ">>

(* the markers a body starts with, in every order *)
MarkerRuns ==
    {<<>>, Rss, Reddit, Var, Rss \o Reddit, Reddit \o Rss, Rss \o Var, Var \o Rss,
     Reddit \o Var, Var \o Reddit, Rss \o Reddit \o Var, Var \o Reddit \o Rss,
     Reddit \o Rss \o Var}

(* a feed with a description, with and without a title *)
Feeds ==
    {Rss \o title \o DescriptionOpen \o <<">">> \o text \o DescriptionClose :
        title \in {<<>>, TitleOpen \o <<">", "x">> \o TitleClose}, text \in Texts}

Contents ==
    {m \o text : m \in MarkerRuns, text \in Texts}
    \cup {<<"{">> \o m \o text \o <<"}">> : m \in MarkerRuns, text \in Texts}
    \cup Feeds

PreviewInit ==
    /\ InitTables(<<>>, AppConfig(1, 1), Limits(0, 0, 0, 0, 0, {}, 0))
    /\ admin = NoCalls(TRUE)
    /\ eval \in [content : Contents, max_length : 0..MaxPreview, by : {None},
                  out : {None}, cut : {None}]

ExtractPreview ==
    /\ eval.out = None
    /\ eval' = [eval EXCEPT
                   !.by = Some(Extractor(eval.content)),
                   !.out = Some(extract_formatted_preview(eval.content,
                                                          eval.max_length))]
    /\ UNCHANGED <<clock, scheduler, sites, updates, next_id, site_states, tasks,
                   sent, receivers, admin, config, limits, hist>>

(* find_word_boundary and find_sentence_boundary called on the same text *)
FindBoundary ==
    /\ eval.cut = None
    /\ eval' = [eval EXCEPT
                   !.cut = Some([word |-> find_word_boundary(eval.content,
                                                             eval.max_length),
                                 sentence |-> find_sentence_boundary(eval.content,
                                                                     eval.max_length)])]
    /\ UNCHANGED <<clock, scheduler, sites, updates, next_id, site_states, tasks,
                   sent, receivers, admin, config, limits, hist>>

PreviewNext ==
    \/ ExtractPreview
    \/ FindBoundary

PreviewSpec == PreviewInit /\ [][PreviewNext]_vars

----------------------------------------------------------------------------
(* clean_content_for_comparison on two fetches of one page: the same text   *)
(* around a time or a date, written in one way or another.                  *)

(* 12:40:05, 12:40:09, 9:05, 2026-11-04, 11/4/26, Wed, 04 Nov 2026,        *)
(* Thu, 05 Nov 2026, and 11:59 AM, 12:01 PM, 4 Nov, 5 Nov                   *)
Stamps ==
    {Time1, Time2,
     <<"9", ":", "0", "5">>,
     <<"2", "0", "2", "6", "-", "1", "1", "-", "0", "4">>,
     <<"1", "1", "/", "4", "/", "2", "6">>,
     <<"W", "e", "d", ",", " ", "0", "4", " ", "N", "o", "v", " ", "2", "0", "2", "6">>,
     <<"T", "h", "u", ",", " ", "0", "5", " ", "N", "o", "v", " ", "2", "0", "2", "6">>,
     <<"1", "1", ":", "5", "9", " ", "A", "M">>,
     <<"1", "2", ":", "0", "1", " ", "P", "M">>,
     <<"4", " ", "N", "o", "v">>,
     <<"5", " ", "N", "o", "v">>}

Before == {<<>>, <<"a", " ">>, <<"1">>}
After == {<<>>, <<" ", "b">>, <<"5">>}

(* a block of markup: <tag>inner</tag>, or <!--inner--> *)
Comment == <<"!", "-", "-">>
Tags == {Script, Iframe, Comment, Ins}
Block(tag, inner) ==
    IF tag = Comment THEN <<"<">> \o Comment \o inner \o <<"-", "-", ">">>
    ELSE <<"<">> \o tag \o <<">">> \o inner \o <<"<", "/">> \o tag \o <<">">>
Inners == {<<"a">>, <<"b">>, <<"a", Newline, "b">>}

(* two fetches that differ in a time or date, or inside one block of markup *)
CanonInit ==
    /\ InitTables(<<>>, AppConfig(1, 1), Limits(0, 0, 0, 0, 0, {}, 0))
    /\ admin = NoCalls(TRUE)
    /\ \/ eval \in [differ : {"stamp"}, before : Before, after : After,
                     stamp1 : Stamps, stamp2 : Stamps, out : {None}]
       \/ \E tag \in Tags :
            eval \in [differ : {"block"}, tag : {tag}, before : Before, after : After,
                      stamp1 : {Block(tag, inner) : inner \in Inners},
                      stamp2 : {Block(tag, inner) : inner \in Inners}, out : {None}]

(* let cleaned_content = clean_content_for_comparison(&body); the digest of *)
(* it; and for the second fetch last_hash.map_or(true, |h| h.0 != hash)     *)
(* against the digest stored for the first                                  *)
Canonicalize ==
    /\ eval.out = None
    /\ LET first == eval.before \o eval.stamp1 \o eval.after
           second == eval.before \o eval.stamp2 \o eval.after
       IN  eval' = [eval EXCEPT !.out = Some(
                      [first |-> Fingerprint(first), second |-> Fingerprint(second),
                       changed |-> Changed(Some(Fingerprint(first)),
                                           Fingerprint(second))])]
    /\ UNCHANGED <<clock, scheduler, sites, updates, next_id, site_states, tasks,
                   sent, receivers, admin, config, limits, hist>>

CanonNext == Canonicalize

CanonSpec == CanonInit /\ [][CanonNext]_vars

----------------------------------------------------------------------------
(* delete_site, served by the HTTP workers while the scraper runs.  Each    *)
(* step is one completed query.                                             *)

(* web::Path<i64>: the ids ever registered and one that never was *)
PathIds == DOMAIN hist \cup {0}

(* DELETE FROM updates WHERE site_id = ?1 *)
DeleteUpdatesOf(rows, site_id) ==
    LET Other(r) == r.site_id # site_id IN SelectSeq(rows, Other)

(* DELETE FROM sites WHERE id = ?1 *)
DeleteSiteRow(tbl, site_id) == [i \in DOMAIN tbl \ {site_id} |-> tbl[i]]

Step(c, pc) == (admin.calls \ {c}) \cup {[c EXCEPT !.pc = pc]}

Respond(c, status) ==
    [admin EXCEPT !.calls = @ \ {c},
                  !.replies = @ \cup {[call |-> c.call, site_id |-> c.site_id,
                                       status |-> status]}]

(* the handler is entered; PRAGMA foreign_keys = ON *)
DeleteSite(id) ==
    /\ limits.deletes > 0
    /\ limits' = [limits EXCEPT !.deletes = @ - 1]
    /\ admin' = [admin EXCEPT !.calls = @ \cup
                     {[call |-> limits.deletes, site_id |-> id, pc |-> "delete_updates"]}]
    /\ UNCHANGED <<clock, scheduler, sites, updates, next_id, site_states, tasks,
                   sent, receivers, config, eval, hist>>

(* let _ = DELETE FROM updates WHERE site_id = ?1 *)
DeleteUpdates(c) ==
    /\ c.pc = "delete_updates"
    /\ \/ /\ updates' = DeleteUpdatesOf(updates, c.site_id)
          /\ UNCHANGED limits
       \/ /\ limits.faults > 0
          /\ limits' = Fault
          /\ UNCHANGED updates
    /\ admin' = [admin EXCEPT !.calls = Step(c, "select")]
    /\ UNCHANGED <<clock, scheduler, sites, next_id, site_states, tasks, sent,
                   receivers, config, eval, hist>>

(* SELECT id FROM sites WHERE id = ?1: Ok(Some), Ok(None) or Err *)
SelectId(c) ==
    /\ c.pc = "select"
    /\ \/ /\ SiteExists(sites, c.site_id)
          /\ admin' = [admin EXCEPT !.calls = Step(c, "delete_site")]
          /\ UNCHANGED limits
       \/ /\ ~SiteExists(sites, c.site_id)
          /\ admin' = Respond(c, 404)
          /\ UNCHANGED limits
       \/ /\ limits.faults > 0
          /\ admin' = Respond(c, 500)
          /\ limits' = Fault
    /\ UNCHANGED <<clock, scheduler, sites, updates, next_id, site_states, tasks,
                   sent, receivers, config, eval, hist>>

(* the delete is refused while rows of updates refer to the site and the *)
(* reference was declared without ON DELETE CASCADE                      *)
Restricted(c) == ~admin.cascade /\ UpdatesOf(updates, c.site_id) # <<>>

(* DELETE FROM sites WHERE id = ?1, and the response *)
DeleteRow(c) ==
    /\ c.pc = "delete_site"
    /\ \/ /\ ~Restricted(c)
          /\ sites' = DeleteSiteRow(sites, c.site_id)
          /\ updates' = IF SiteExists(sites, c.site_id)
                        THEN DeleteUpdatesOf(updates, c.site_id)
                        ELSE updates
          /\ admin' = [Respond(c, 200) EXCEPT
                          !.gone = IF c.site_id \in DOMAIN @ THEN @
                                   ELSE @ @@ (c.site_id :> hist[c.site_id].dispatched)]
          /\ UNCHANGED limits
       \/ /\ Restricted(c)
          /\ admin' = Respond(c, 500)
          /\ UNCHANGED <<sites, updates, limits>>
       \/ /\ limits.faults > 0
          /\ admin' = Respond(c, 500)
          /\ limits' = Fault
          /\ UNCHANGED <<sites, updates>>
    /\ UNCHANGED <<clock, scheduler, next_id, site_states, tasks, sent, receivers,
                   config, eval, hist>>

(* A site deleted while it is being checked, under either schema. *)
DeleteRuns ==
    {<<r, AppConfig(1, 1),
       [Limits(MaxInFlight, 1, f, MaxInFlight, 0, OnePage, 0)
            EXCEPT !.deletes = MaxDeletes]>> :
        r \in Registry1({1}, {"none"}), f \in 0..MaxFaults}

(* The runs in which no site is deleted: every policy, and event streams. *)
AdminInit ==
    \/ \E sc \in PolicyRuns \cup StreamRuns : InitWith(sc[1], sc[2], sc[3])
    \/ \E sc \in DeleteRuns, cascade \in BOOLEAN :
          /\ InitTables(sc[1], sc[2], sc[3])
          /\ admin = NoCalls(cascade)
          /\ eval = NoEval

AdminNext ==
    \/ Next
    \/ \E id \in PathIds : DeleteSite(id)
    \/ \E c \in admin.calls : DeleteUpdates(c)
    \/ \E c \in admin.calls : SelectId(c)
    \/ \E c \in admin.calls : DeleteRow(c)

AdminSpec == AdminInit /\ [][AdminNext]_vars

----------------------------------------------------------------------------
(* Properties *)

DelayMs(e) == e.next_check - e.fetched_at

Wrote(e) == e.kind = "wrote"

FailedBackoff(e) == Wrote(e) /\ e.style = "exponential" /\ ~e.success

Capped(n) == IF n < 10 THEN n ELSE 10

(* C1: a failed check of a backoff site adds exactly 1 to backoff_count   *)
(* and writes next_check = fetched_at + interval * 2^min(count, 10) with  *)
(* the incremented count; after N failed checks in a row from counter 0    *)
(* the counter is N, also beyond 10.                                       *)
C1_FailureDoubles ==
    \A i \in DOMAIN hist : \A e \in hist[i].last :
        FailedBackoff(e) =>
            /\ e.after = e.before + 1
            /\ hist[i].fails = e.after
            /\ site_states[i].backoff_count = e.after
            /\ site_states[i].next_check =
                   e.fetched_at + e.interval_secs * Pow2(Capped(e.after)) * 1000

C1_Witness ==
    \E i \in DOMAIN hist : \E e \in hist[i].last :
        /\ FailedBackoff(e)
        /\ e.interval_secs >= 1
        /\ e.after > 10
        /\ hist[i].fails = e.after
        /\ DelayMs(e) = e.interval_secs * 1024 * 1000

(* C2: a successful check of a backoff site writes backoff_count 0 and    *)
(* next_check = fetched_at + interval whatever the counter was, and the    *)
(* failure that ends next after it is delayed by twice the interval.       *)
C2_SuccessResets ==
    \A i \in DOMAIN hist :
        /\ \A e \in hist[i].last :
              (Wrote(e) /\ e.style = "exponential" /\ e.success) =>
                  /\ e.after = 0
                  /\ hist[i].fails = 0
                  /\ site_states[i] =
                        [next_check |-> e.fetched_at + e.interval_secs * 1000,
                         backoff_count |-> 0]
        /\ \A k \in 1..(Len(hist[i].ends) - 1) :
              LET e == hist[i].ends[k]
                  f == hist[i].ends[k + 1]
              IN  (Wrote(e) /\ e.style = "exponential" /\ e.success /\ FailedBackoff(f))
                      => DelayMs(f) = 2 * f.interval_secs * 1000

C2_Witness ==
    \E i \in DOMAIN hist :
        /\ Len(hist[i].ends) >= 3
        /\ FailedBackoff(hist[i].ends[1])
        /\ Wrote(hist[i].ends[2]) /\ hist[i].ends[2].success
        /\ hist[i].ends[2].before = 1 /\ hist[i].ends[2].after = 0
        /\ FailedBackoff(hist[i].ends[3])
        /\ hist[i].ends[3].interval_secs >= 1
        /\ DelayMs(hist[i].ends[3]) = 2 * hist[i].ends[3].interval_secs * 1000

(* The first three checks of a backoff site ended failure, failure, success. *)
FailFailSuccess(i) ==
    /\ Len(hist[i].ends) >= 3
    /\ FailedBackoff(hist[i].ends[1])
    /\ FailedBackoff(hist[i].ends[2])
    /\ Wrote(hist[i].ends[3]) /\ hist[i].ends[3].success

Delays(i) == [k \in 1..3 |-> DelayMs(hist[i].ends[k])]

(* C3 as stated: the delays written by failure, failure, success are      *)
(* interval, 2 * interval, interval (10 s, 20 s, 10 s).                    *)
C3_AsStated ==
    \A i \in DOMAIN hist :
        FailFailSuccess(i) =>
            LET ms == hist[i].ends[1].interval_secs * 1000
            IN  Delays(i) = <<ms, 2 * ms, ms>>

(* C3 amended: the delays written by failure, failure, success are        *)
(* 2 * interval, 4 * interval, interval (20 s, 40 s, 10 s).                *)
C3_Amended ==
    \A i \in DOMAIN hist :
        FailFailSuccess(i) =>
            LET ms == hist[i].ends[1].interval_secs * 1000
            IN  Delays(i) = <<2 * ms, 4 * ms, ms>>

C3_Witness ==
    \E i \in DOMAIN hist :
        /\ FailFailSuccess(i)
        /\ hist[i].ends[1].interval_secs = 10
        /\ Delays(i) = <<20000, 40000, 10000>>

(* C4: every check of a fixed ("none") site that reaches the next-check   *)
(* computation writes next_check = fetched_at + interval, after success    *)
(* and after failure, and leaves the counter as it was.                    *)
C4_FixedIgnoresOutcome ==
    \A i \in DOMAIN hist : \A e \in hist[i].last :
        (e.style = "none" /\ e.at = "finish") =>
            /\ Wrote(e)
            /\ e.after = e.before
            /\ site_states[i] =
                  [next_check |-> e.fetched_at + e.interval_secs * 1000,
                   backoff_count |-> e.before]

C4_Witness ==
    \E i \in DOMAIN hist : \E e \in hist[i].last :
        /\ e.style = "none" /\ Wrote(e) /\ ~e.success
        /\ e.seq >= 2
        /\ sites[i].last_updated # None
        /\ e.interval_secs >= 1
        /\ DelayMs(e) = e.interval_secs * 1000

(* C5 as stated: every check of a jittered ("random") site that reaches   *)
(* the next-check computation writes a state whose delay lies in           *)
(* [interval, interval + jitter_max], for every jitter_max >= 0.           *)
C5_AsStated ==
    \A i \in DOMAIN hist : \A e \in hist[i].last :
        (e.style = "random" /\ e.at = "finish") =>
            /\ Wrote(e)
            /\ DelayMs(e) >= e.interval_secs * 1000
            /\ DelayMs(e) <= e.interval_secs * 1000 + config.interval_jitter_max_ms

Unrecognised(style) == style \notin {"random", "exponential", "none"}

JustSpawned == {t.site_id : t \in tasks' \ tasks}

(* C6: a site with an unrecognised style is dispatched whenever it is due *)
(* and its check writes next_check = fetched_at + interval after success   *)
(* and after failure, as for a fixed site.                                 *)
C6_UnknownStyleIsFixed ==
    [][ /\ \A t \in tasks :
              (t.pc = "finish" /\ Unrecognised(t.style) /\ t \notin tasks') =>
                  /\ t.site_id \in DOMAIN site_states'
                  /\ site_states'[t.site_id].next_check =
                         t.fetched_at + t.interval_secs * 1000
        /\ (scheduler.pc = "loop" /\ scheduler'.pc = "select") =>
              \A i \in DOMAIN scheduler.snap :
                  (/\ Unrecognised(scheduler.snap[i].style)
                   /\ (i \notin DOMAIN site_states
                       \/ clock >= site_states[i].next_check))
                      => i \in JustSpawned
      ]_vars

C6_Witness ==
    \E i \in DOMAIN hist : \E e \in hist[i].last :
        /\ Unrecognised(e.style) /\ Wrote(e) /\ ~e.success
        /\ e.seq >= 2
        /\ e.interval_secs >= 1
        /\ DelayMs(e) = e.interval_secs * 1000

(* C7: a loop iteration spawns a check for exactly the sites of the list  *)
(* it read that have no SiteCheckState or whose next_check is <= now; with *)
(* an empty SiteState table that is every site read.                       *)
C7_DispatchIffDue ==
    [][ (scheduler.pc = "loop" /\ scheduler'.pc = "select") =>
            /\ JustSpawned =
                  {i \in DOMAIN scheduler.snap :
                      i \notin DOMAIN site_states
                      \/ clock >= site_states[i].next_check}
            /\ (DOMAIN site_states = {} => JustSpawned = DOMAIN scheduler.snap)
      ]_vars

C7_Witness ==
    /\ DOMAIN sites = {1, 2}
    /\ sites[2].last_checked # None
    /\ scheduler.pc = "select" /\ scheduler.wake = clock + TickMs
    /\ scheduler.due = {1} /\ scheduler.skipped = {2}
    /\ hist[1].dispatched >= 2 /\ hist[2].dispatched = 1
    /\ 2 \in DOMAIN site_states /\ site_states[2].next_check > clock

PastPublish(t) == t.success /\ t.pc \in {"mark_updated", "prune", "finish"}

(* C8 as stated: a successful check sends an UpdateMessage if and only if *)
(* the site had no row in updates when the check read the latest hash or   *)
(* its fingerprint differs from the hash of the latest row.                *)
C8_AsStated ==
    \A t \in tasks :
        PastPublish(t) =>
            (t.published <=> (t.truth = None \/ t.hash \notin t.truth))

SameContent ==
    \A b1 \in limits.pages, b2 \in limits.pages : Fingerprint(b1) = Fingerprint(b2)

MessagesFor(i) == Cardinality({k \in 1..Len(sent) : sent[k].site_id = i})

(* C9 as stated: when every fetch returns the same canonical content and  *)
(* no storage operation fails, at most one UpdateMessage is ever sent for  *)
(* a site, and exactly one once a row was inserted for it and its checks   *)
(* have ended.                                                             *)
C9_AsStated ==
    (SameContent /\ limits.failed = 0) =>
        \A i \in DOMAIN hist :
            /\ MessagesFor(i) <= 1
            /\ (hist[i].inserted # <<>> /\ ~\E t \in tasks : t.site_id = i)
                   => MessagesFor(i) = 1

LastIds(ids, n) == SubSeq(ids, Len(ids) - n + 1, Len(ids))

IdsOf(rows, i) ==
    LET mine == UpdatesOf(rows, i) IN [k \in 1..Len(mine) |-> mine[k].id]

(* C10: when the prune of a check completes the site has exactly          *)
(* min(n, update_cache_size) rows, n being the number of rows ever         *)
(* inserted for it, and they are the last inserted ones in order.          *)
C10_PruneKeepsNewest ==
    [][ \A t \in tasks :
            (t.pc = "prune" /\ [t EXCEPT !.pc = "finish"] \in tasks') =>
                LET n == Len(hist[t.site_id].inserted)
                    k == IF n < config.update_cache_size THEN n
                         ELSE config.update_cache_size
                IN  /\ Len(UpdatesOf(updates', t.site_id)) = k
                    /\ IdsOf(updates', t.site_id) = LastIds(hist[t.site_id].inserted, k)
      ]_vars

C10_Witness ==
    \E t \in tasks :
        /\ t.pc = "finish" /\ t.success
        /\ Len(hist[t.site_id].inserted) = config.update_cache_size + 3
        /\ IdsOf(updates, t.site_id) =
               LastIds(hist[t.site_id].inserted, config.update_cache_size)

Stepped == tasks \ tasks'

Successor(t) == {u \in tasks' \ tasks : u.site_id = t.site_id /\ u.seq = t.seq}

(* C11: the insert step of a check whose fetch succeeded appends exactly   *)
(* one row (site_id, fetched_at, hash, body) to updates whether or not the *)
(* content was judged changed; no other step of a check adds a row; a      *)
(* check that prunes, or that ends with success, has inserted its row      *)
(* before.                                                                 *)
C11_EveryFetchRecorded ==
    [][ \A t \in Stepped :
          /\ (t.pc = "insert" /\ Successor(t) # {}) =>
                /\ updates' = Append(updates,
                                 [id |-> next_id, site_id |-> t.site_id,
                                  timestamp |-> t.fetched_at, diff_hash |-> t.hash,
                                  content |-> t.body])
                /\ \A u \in Successor(t) : u.row = Some(next_id)
          /\ t.pc # "insert" => Len(updates') <= Len(updates)
          /\ t.pc = "prune" => t.row # None
          /\ (t.pc = "finish" /\ t.success) => t.row # None
          /\ t.pc \in {"send", "text", "select_last", "mark_ok", "insert",
                       "mark_error"} => t.row = None
      ]_vars

C11_Witness ==
    \E t \in tasks :
        /\ t.pc = "finish" /\ t.success /\ ~t.changed
        /\ t.truth # None
        /\ \E k \in 1..Len(updates) :
              /\ Some(updates[k].id) = t.row
              /\ updates[k].diff_hash = t.hash /\ updates[k].content = t.body
              /\ updates[k].timestamp = t.fetched_at

(* C12 as stated: the prune step of a check leaves the row that this check *)
(* inserted in the table.                                                  *)
C12_AsStated ==
    [][ \A t \in Stepped :
          (t.pc = "prune" /\ Successor(t) # {}) =>
              \A id \in t.row : \E k \in 1..Len(updates') : updates'[k].id = id
      ]_vars

(* C13 as stated: when the checks of a site do not overlap, a check that   *)
(* ended as failed has left status = ERROR and last_checked = fetched_at   *)
(* in the row of its site.                                                 *)
C13_AsStated ==
    \A i \in DOMAIN hist : \A e \in hist[i].last :
        (/\ Wrote(e) /\ ~e.success
         /\ limits.inflight = 1 /\ hist[i].dispatched = e.seq
         /\ ~\E t \in tasks : t.site_id = i) =>
            /\ sites[i].status = "ERROR"
            /\ sites[i].last_checked = Some(e.fetched_at)

(* C14 as stated: no two check tasks of the same site are alive at once.   *)
C14_AsStated ==
    \A t \in tasks : \A u \in tasks : t.site_id = u.site_id => t = u

(* C15 as stated: every write of a SiteCheckState stores a next_check that *)
(* is not below the one it replaces.                                       *)
C15_AsStated ==
    [][ \A i \in DOMAIN site_states :
            site_states'[i].next_check >= site_states[i].next_check ]_vars

(* C16: a step of a check of one site, whether it completes, fails or ends *)
(* the task, leaves the row, the updates and the SiteCheckState of every   *)
(* other site as they were.                                                *)
C16_ChecksAreFramed ==
    [][ \A t \in Stepped : \A j \in DOMAIN sites \ {t.site_id} :
            /\ sites'[j] = sites[j]
            /\ UpdatesOf(updates', j) = UpdatesOf(updates, j)
            /\ (j \in DOMAIN site_states') = (j \in DOMAIN site_states)
            /\ j \in DOMAIN site_states => site_states'[j] = site_states[j]
      ]_vars

C16_Witness ==
    /\ DOMAIN sites = {1, 2}
    /\ \E e \in hist[1].last : e.kind = "panic" /\ e.at = "prune"
    /\ UpdatesOf(updates, 1) # <<>>
    /\ UpdatesOf(updates, 2) # <<>>
    /\ 2 \in DOMAIN site_states
    /\ sites[2].status = "OK"

(* C17: no step of a check task, the step in which it panics included,    *)
(* touches the loop of run_scraper; whenever the sleep of the loop has     *)
(* elapsed the loop reads the site list again, also after failed queries   *)
(* and panicked checks; and an iteration that follows such failures spawns *)
(* a check for every site of the list it read that is due.                 *)
C17_LoopNeverStops ==
    /\ [][ /\ Stepped # {} => scheduler' = scheduler
           /\ (scheduler.pc = "loop" /\ scheduler'.pc # "loop") =>
                 /\ scheduler'.pc = "select"
                 /\ scheduler'.wake = clock + TickMs
                 /\ JustSpawned = DueSites(scheduler.snap, site_states, clock)
         ]_vars
    /\ [](scheduler.pc \in {"select", "loop"})
    /\ ((scheduler.pc = "select" /\ clock >= scheduler.wake)
            ~> (scheduler.pc = "loop"))

C17_Witness ==
    /\ scheduler.pc = "select" /\ scheduler.wake = clock + TickMs
    /\ scheduler.upset
    /\ clock > 0
    /\ scheduler.due = {1} /\ scheduler.skipped = {2}
    /\ \E e \in hist[1].last : e.kind = "panic" /\ e.seq = 1
    /\ \E t \in tasks : t.site_id = 1 /\ t.seq = 2 /\ t.pc = "send"

(* C18 as stated: a check one of whose storage operations failed sends no  *)
(* UpdateMessage afterwards and writes no SiteCheckState.                  *)
C18_AsStated ==
    /\ \A t \in tasks : t.faulted => ~t.published
    /\ \A i \in DOMAIN hist : \A e \in hist[i].last : e.faulted => ~Wrote(e)

(* C19: a receiver that has not fallen behind the retained messages is     *)
(* handed, one by one and in the order of sending, every message sent      *)
(* since it subscribed: what its stream has yielded is the run of messages *)
(* from its first to the one before its next, and its stream is ended for  *)
(* lagging only when more than ChannelCap messages were waiting for it.    *)
C19_DeliveredInOrder ==
    [][ \A k \in DOMAIN receivers :
          /\ receivers[k].received =
                 SubSeq(sent, receivers[k].from, receivers[k].next - 1)
          /\ receivers'[k].received # receivers[k].received =>
                 /\ receivers'[k].next = receivers[k].next + 1
                 /\ receivers'[k].received =
                        SubSeq(sent, receivers[k].from, receivers[k].next)
          /\ (receivers[k].state = "open" /\ receivers'[k].state = "lagged") =>
                 Len(sent) - receivers[k].next + 1 > ChannelCap
      ]_vars

C19_Witness ==
    \E k \in DOMAIN receivers :
        /\ receivers[k].state = "open"
        /\ receivers[k].from > 1
        /\ Len(receivers[k].received) > ChannelCap
        /\ receivers[k].received = SubSeq(sent, receivers[k].from, Len(sent))
        /\ \E a \in DOMAIN sent : \E b \in DOMAIN sent :
              a < b /\ sent[a].diff_hash # sent[b].diff_hash

(* C20 as stated: the stream of a receiver is ended only by the client     *)
(* closing it.                                                             *)
C20_AsStated ==
    \A k \in DOMAIN receivers : receivers[k].state \in {"open", "closed"}

(* C21: a check that is about to send its UpdateMessage can always do so,  *)
(* whatever receivers exist and however far behind they are, and it goes   *)
(* on to its registry write, prune and state write.                        *)
C21_PublishNeverBlocks ==
    \A t \in tasks : t.pc = "publish" => ENABLED Publish(t)

C21_Witness ==
    /\ \E k \in DOMAIN receivers :
          receivers[k].state = "open" /\ Lagged(receivers[k], Len(sent))
    /\ \E i \in DOMAIN hist : \E e \in hist[i].last :
          /\ Wrote(e) /\ e.success
          /\ e.seq = Len(sent)
          /\ sent[Len(sent)].timestamp = e.fetched_at
          /\ sites[i].last_updated = Some(e.fetched_at)
          /\ Len(UpdatesOf(updates, i)) = config.update_cache_size

(* C22 as stated: in a run without failed storage operations every check   *)
(* that has ended has written the SiteCheckState of its site.              *)
C22_AsStated ==
    limits.failed = 0 =>
        \A i \in DOMAIN hist : \A e \in hist[i].last : Wrote(e)

(* C26 as stated: a site is not dispatched before fetched_at + interval of *)
(* any check of it that has written its SiteCheckState.                    *)
C26_AsStated ==
    [][ (scheduler.pc = "loop" /\ scheduler'.pc = "select") =>
            \A i \in JustSpawned : \A k \in 1..Len(hist[i].ends) :
                Wrote(hist[i].ends[k]) =>
                    clock >= hist[i].ends[k].fetched_at
                             + hist[i].ends[k].interval_secs * 1000 ]_vars

NewerInserted(i, id) ==
    Cardinality({k \in 1..Len(hist[i].inserted) : hist[i].inserted[k] > id})

MessagesOf(i) == LET Mine(m) == m.site_id = i IN SelectSeq(sent, Mine)

C28_AsStated ==
    [][ \A i \in DOMAIN sites \cap DOMAIN sites' :
          /\ \A u \in sites'[i].last_updated : \A c \in sites'[i].last_checked :
                u <= c
          /\ \A c \in sites[i].last_checked : \A d \in sites'[i].last_checked :
                c <= d ]_vars

(* C29 as stated: a check whose fetch failed and that has reached the      *)
(* computation of the next check time has written its SiteCheckState.      *)
C29_AsStated ==
    \A i \in DOMAIN hist : \A e \in hist[i].last :
        (~e.success /\ e.at = "finish") => Wrote(e)


----------------------------------------------------------------------------
(* delete_site *)

Deleted(i) == i \in DOMAIN admin.gone

(* the checks of site i dispatched before its delete_site call returned *)
InFlightAtDelete(i) == {t \in tasks : t.site_id = i /\ t.seq <= admin.gone[i]}

(* C23: site_states holds an entry for a site only while the site is in    *)
(* the sites table; once the site is deleted and no check of it is running *)
(* any more, it has no entry.                                              *)
C23_AsStated ==
    \A i \in DOMAIN site_states :
        SiteExists(sites, i) \/ \E t \in tasks : t.site_id = i

(* C30: once delete_site has answered 200 for a site and the checks of it  *)
(* dispatched before that have ended, updates holds no row of the site,    *)
(* and no check dispatched after the answer sends an UpdateMessage for it. *)
C30_DeletedStaysDeleted ==
    /\ [](\A i \in DOMAIN hist :
            (Deleted(i) /\ InFlightAtDelete(i) = {}) => UpdatesOf(updates, i) = <<>>)
    /\ [][\A t \in Stepped :
            (t.pc = "publish" /\ Deleted(t.site_id)) => t.seq <= admin.gone[t.site_id]]_vars

(* a check that was running when its site was deleted met the foreign key *)
(* and ended; an earlier check had stored a row                           *)
C30_Witness ==
    /\ Deleted(1)
    /\ [call |-> 1, site_id |-> 1, status |-> 200] \in admin.replies
    /\ limits.failed = 0
    /\ tasks = {}
    /\ hist[1].inserted # <<>>
    /\ \E e \in hist[1].last : e.kind = "panic" /\ e.at = "insert" /\ e.seq <= admin.gone[1]
    /\ UpdatesOf(updates, 1) = <<>>


----------------------------------------------------------------------------
(* extract_formatted_preview *)

(* C24: extract_formatted_preview returns for every body and every        *)
(* max_length, and what it returns is not empty.                          *)
C24_AsStated ==
    \A r \in eval.out : r.ok /\ r.value # <<>>

(* the indices below max_length at which text holds one of breaks *)
BreaksBelow(text, max_length, breaks) ==
    {i \in 0..max_length - 1 : i < Len(text) /\ text[i + 1] \in breaks}

Largest(indices) == CHOOSE i \in indices : \A j \in indices : j <= i

(* C33: both functions return the length of a text no longer than         *)
(* max_length; for a longer text find_word_boundary returns i + 1 for the *)
(* largest i < max_length holding a break character, or max_length when   *)
(* there is none, find_sentence_boundary does the same for the sentence    *)
(* breaks and returns find_word_boundary's result when there is none, and  *)
(* both results are in 1..max_length.                                      *)
C33_AsStated ==
    \A r \in eval.cut :
        LET text == eval.content
            max_length == eval.max_length
            words == BreaksBelow(text, max_length, WordBreaks)
            sentences == BreaksBelow(text, max_length, SentenceBreaks)
            word == IF words = {} THEN max_length ELSE Largest(words) + 1
            sentence == IF sentences = {} THEN word ELSE Largest(sentences) + 1
        IN  /\ r.word.ok /\ r.sentence.ok
            /\ IF ByteLen(text) <= max_length
               THEN r.word.value = ByteLen(text) /\ r.sentence.value = ByteLen(text)
               ELSE /\ r.word.value = word /\ r.sentence.value = sentence
                    /\ r.word.value \in 1..max_length
                    /\ r.sentence.value \in 1..max_length


----------------------------------------------------------------------------
(* clean_content_for_comparison *)

(* the whole stamp is one match of one of the time and date patterns *)
Recognised(stamp) ==
    \E k \in DOMAIN TimePatterns : MatchEnd(TimePatterns[k], stamp, 0) = Len(stamp)

(* white space, or nothing, on both sides of the stamp *)
SetOff ==
    /\ eval.before = <<>> \/ eval.before[Len(eval.before)] = " "
    /\ eval.after = <<>> \/ Head(eval.after) = " "

(* C25 as stated: two bodies that differ only in an embedded time or date *)
(* have the same cleaned text and digest, and the second is not a change. *)
C25_AsStated ==
    \A r \in eval.out : eval.differ = "stamp" => r.first = r.second /\ ~r.changed

(* C25: two bodies that differ only in an embedded time or date written as *)
(* H:MM, H:MM:SS, M/D/Y, YYYY-MM-DD or Ddd, D Mon YYYY and set off by      *)
(* white space have the same cleaned text and digest, and the second is    *)
(* not a change.                                                           *)
C25_Amended ==
    \A r \in eval.out :
        (eval.differ = "stamp" /\ Recognised(eval.stamp1) /\ Recognised(eval.stamp2)
         /\ SetOff)
            => r.first = r.second /\ ~r.changed

(* a time of day in the first fetch, a date in the second, inside text *)
C25_Witness ==
    /\ eval.before = <<"a", " ">>
    /\ eval.after = <<" ", "b">>
    /\ eval.stamp1 = <<"9", ":", "0", "5">>
    /\ eval.stamp2 = <<"W", "e", "d", ",", " ", "0", "4", " ", "N", "o", "v", " ",
                       "2", "0", "2", "6">>
    /\ \E r \in eval.out :
          r.first = <<"a", " ", "b">> /\ r.second = <<"a", " ", "b">> /\ ~r.changed


----------------------------------------------------------------------------
(* extract_formatted_preview: classification and truncation *)

(* the marker tests in the order of the classification *)
MarkerTest(k, content) ==
    CASE k = 1 -> IsFeed(content)
      [] k = 2 -> IsReddit(content)
      [] k = 3 -> IsJson(content)
      [] k = 4 -> IsScript(content)

Order ==
    <<"extract_rss_preview", "extract_reddit_preview", "extract_json_preview",
      "clean_script_content">>

(* what the named extractor alone returns *)
Alone(name, content, max_length) ==
    CASE name = "extract_rss_preview" -> extract_rss_preview(content, max_length)
      [] name = "extract_reddit_preview" -> extract_reddit_preview(content, max_length)
      [] name = "extract_json_preview" -> extract_json_preview(content, max_length)
      [] name = "clean_script_content" -> script_preview(content, max_length)
      [] name = "extract_html_preview" -> extract_html_preview(content, max_length)

(* C31: the extractor that runs is the first, in the order feed, Reddit,   *)
(* JSON, script, whose marker test holds for the content, and the markup   *)
(* extractor when none holds; the preview is what that extractor returns.  *)
C31_FirstMatchWins ==
    \A by \in eval.by :
        LET held == {k \in 1..4 : MarkerTest(k, eval.content)}
            first == CHOOSE k \in held : \A j \in held : k <= j
        IN  /\ by = IF held = {} THEN "extract_html_preview" ELSE Order[first]
            /\ \A r \in eval.out : r = Alone(by, eval.content, eval.max_length)

(* a JSON-looking body with the script, the Reddit and the feed marker, in *)
(* that order, was given to the feed extractor                             *)
C31_Witness ==
    /\ eval.content = <<"{">> \o Var \o Reddit \o Rss \o <<"}">>
    /\ eval.by = Some("extract_rss_preview")
    /\ eval.out = Some(Returned(
          <<"RSS/XML content detected, but couldn't extract readable content.">>))


(* the text the extractor that runs would show in full *)
ContentOf(content) ==
    CASE Extractor(content) = "extract_rss_preview" -> rss_content_text(content)
      [] Extractor(content) = "extract_reddit_preview" -> reddit_cleaned(content)
      [] Extractor(content) = "extract_json_preview" -> content
      [] Extractor(content) = "clean_script_content" -> clean_script_content(content)
      [] OTHER -> html_content_text(content)

(* headings, title marks and the messages shown in place of content *)
Headings ==
    {"JSON Data", "Reddit Updates", "Content Preview", "[title]", "[break]",
     "[RSS feed detected - content not available]",
     "RSS/XML content detected, but couldn't extract readable content.",
     "Unable to extract readable content from this page."}

(* the preview after its last heading *)
Portion(shown) ==
    LET at == {k \in 1..Len(shown) : shown[k] \in Headings}
    IN  IF at = {} THEN shown
        ELSE SubSeq(shown, (CHOOSE k \in at : \A j \in at : j <= k) + 1, Len(shown))

Ellipsis == <<".", ".", ".">>

(* C32: in a preview that is returned, content of no more than max_length *)
(* bytes is shown whole and without ellipsis; longer content is shown as  *)
(* one of its prefixes of at most max_length bytes followed by the         *)
(* 3-character ellipsis.                                                   *)
C32_TruncatedToMaxLength ==
    \A r \in eval.out :
        r.ok =>
            LET text == ContentOf(eval.content)
                portion == Portion(r.value)
            IN  IF ByteLen(text) <= eval.max_length
                THEN portion = text
                ELSE /\ ByteLen(portion) <= eval.max_length + 3
                     /\ \E k \in 0..Len(text) :
                           /\ portion = SubSeq(text, 1, k) \o Ellipsis
                           /\ ByteLen(SubSeq(text, 1, k)) <= eval.max_length

(* a feed whose description of 3 bytes was cut after the space for *)
(* max_length 2                                                    *)
C32_Witness ==
    /\ eval.content = Rss \o DescriptionOpen \o <<">", "x", " ", "x">> \o DescriptionClose
    /\ eval.max_length = 2
    /\ eval.out = Some(Returned(<<"x", " ", ".", ".", ".">>))

----------------------------------------------------------------------------
(* clean_content_for_comparison: blocks of markup *)

(* C34 as stated: two bodies that differ only in the contents of a script, *)
(* iframe, comment or ins block have the same cleaned text and the same    *)
(* digest, and the second is not a change.                                 *)
C34_AsStated ==
    \A r \in eval.out : eval.differ = "block" => r.first = r.second /\ ~r.changed

====
